---- MODULE Spec2Model ----
(***************************************************************************)
(* Model of the two utilities of simple_invoice_creator:                   *)
(*   create_invoice.py            (the invoice builder)                    *)
(*   store_config_in_1password.py (the secret publisher)                   *)
(*                                                                         *)
(* Numbers.  A Python float that holds a short decimal (hours, rate) is    *)
(* represented by that decimal in hundredths (Scale); a Decimal amount or  *)
(* total, the product of two such values, in units of 1/10000 (Scale2).    *)
(* Text (CSV cells, table cells) is a sequence of one-character strings,   *)
(* so that parsing and formatting are computed and not assumed.            *)
(* An optional value (Python None) is <<>>, a present value v is <<v>>.    *)
(***************************************************************************)
EXTENDS Integers, Sequences, FiniteSets, TLC

\* ------------------------------------------------------------------------
\* Bounds of the model
\* ------------------------------------------------------------------------
MaxRows == 3
MaxLayoutItems == 10

\* ------------------------------------------------------------------------
\* Scales of the number representation
\* ------------------------------------------------------------------------
Scale == 100
Scale2 == 10000

None == <<>>
Some(v) == <<v>>

\* ------------------------------------------------------------------------
\* Text
\* ------------------------------------------------------------------------
Digits == <<"0", "1", "2", "3", "4", "5", "6", "7", "8", "9">>

IsDigit(c) == \E d \in 1..10 : Digits[d] = c

DigitVal(c) == (CHOOSE d \in 1..10 : Digits[d] = c) - 1

DigitChar(d) == Digits[d + 1]

RECURSIVE NatText(_)
NatText(n) ==
    IF n < 10 THEN <<DigitChar(n)>>
    ELSE NatText(n \div 10) \o <<DigitChar(n % 10)>>

RECURSIVE NatVal(_)
NatVal(t) ==
    IF t = <<>> THEN 0
    ELSE 10 * NatVal(SubSeq(t, 1, Len(t) - 1)) + DigitVal(t[Len(t)])

\* ------------------------------------------------------------------------
\* float(text) and Decimal(text): the decimal literals both accept, digits
\* with at most one point and at least one digit.  The value is in
\* hundredths; the texts of the model carry at most two fractional digits.
\* ------------------------------------------------------------------------
DotAt(t) == {i \in 1..Len(t) : t[i] = "."}

IsDecimalText(t) ==
    /\ Cardinality(DotAt(t)) <= 1
    /\ \A i \in 1..Len(t) : t[i] = "." \/ IsDigit(t[i])
    /\ \E i \in 1..Len(t) : IsDigit(t[i])

DecimalValue(t) ==
    LET dot == IF DotAt(t) = {} THEN Len(t) + 1 ELSE CHOOSE i \in DotAt(t) : TRUE
        ip  == SubSeq(t, 1, dot - 1)
        fp  == SubSeq(t, dot + 1, Len(t))
        f1  == IF Len(fp) >= 1 THEN DigitVal(fp[1]) ELSE 0
        f2  == IF Len(fp) >= 2 THEN DigitVal(fp[2]) ELSE 0
    IN  NatVal(ip) * Scale + 10 * f1 + f2

\* str(x) of a float x: the shortest decimal that reads back as x, always
\* with a point and at least one fractional digit.
str_float(x) ==
    LET ip == x \div Scale
        fr == x % Scale
    IN  NatText(ip) \o <<".">> \o
        (IF fr % 10 = 0 THEN <<DigitChar(fr \div 10)>>
         ELSE <<DigitChar(fr \div 10), DigitChar(fr % 10)>>)

\* Decimal(str(x)) of create_invoice, a Decimal in hundredths
Decimal_str(x) == DecimalValue(str_float(x))

\* ------------------------------------------------------------------------
\* Binary floating point.  The double nearest to a / (2^s * P), P a power
\* of 5, lies below, on or above that value according to the remainder of
\* a * 2^j modulo P, where j scales the value into [2^52, 2^53).
\* ------------------------------------------------------------------------
RECURSIVE PowMod2(_, _)
PowMod2(j, P) == IF j = 0 THEN 1 % P ELSE (2 * PowMod2(j - 1, P)) % P

RECURSIVE Log2Up(_, _, _)
\* the least i >= 0 with a * 2^i >= P
Log2Up(a, P, i) == IF a >= P THEN i ELSE Log2Up(2 * a, P, i + 1)

RECURSIVE Log2Down(_, _, _)
\* the greatest e >= 0 with P * 2^e <= a
Log2Down(a, P, e) == IF 2 * P > a THEN e ELSE Log2Down(a, 2 * P, e + 1)

\* -1, 0, 1: double(a / (2^s * P)) is below, equal to, above the value
DoubleCmp(a, P) ==
    LET e == IF a >= P THEN Log2Down(a, P, 0) ELSE 0 - Log2Up(a, P, 0)
        j == 52 - e
        r == ((a % P) * PowMod2(j, P)) % P
    IN  IF r = 0 THEN 0 ELSE IF 2 * r < P THEN 0 - 1 ELSE 1

\* The integer that "%.kf" prints for the double nearest to a / unit,
\* counted in steps of unit / step: the correctly rounded (half-even) value
\* of the double, which at a decimal tie is decided by DoubleCmp.
RoundFloat(a, step, P) ==
    LET q == a \div step
        r == a % step
    IN  IF 2 * r < step THEN q
        ELSE IF 2 * r > step THEN q + 1
        ELSE CASE DoubleCmp(a, P) = 1 -> q + 1
               [] DoubleCmp(a, P) = 0 - 1 -> q
               [] OTHER -> IF q % 2 = 0 THEN q ELSE q + 1

Pad2(n) == <<DigitChar(n \div 10), DigitChar(n % 10)>>

Pad3(n) == <<DigitChar(n \div 100), DigitChar((n \div 10) % 10), DigitChar(n % 10)>>

RECURSIVE Grouped(_)
\* the "," grouping of the integer part
Grouped(n) ==
    IF n < 1000 THEN NatText(n)
    ELSE Grouped(n \div 1000) \o <<",">> \o Pad3(n % 1000)

\* format_currency(float(amount)), amount a Decimal in 1/10000
format_currency(amount) ==
    LET cents == RoundFloat(amount, Scale2 \div 100, 625)
    IN  <<"$">> \o Grouped(cents \div 100) \o <<".">> \o Pad2(cents % 100)

\* f"{hours:.1f}" if hours else ""
HoursCell(hours) ==
    IF hours = 0 THEN <<>>
    ELSE LET tenths == RoundFloat(hours, Scale \div 10, 25)
         IN  NatText(tenths \div 10) \o <<".">> \o <<DigitChar(tenths % 10)>>

\* f"${rate:.2f}"
RateCell(rate) == <<"$">> \o NatText(rate \div Scale) \o <<".">> \o Pad2(rate % Scale)

\* ------------------------------------------------------------------------
\* State
\* ------------------------------------------------------------------------
VARIABLES
    args,        \* invoice builder: the parsed command line
    config,      \* invoice builder: the [invoice] table of the loaded config
    csv_file,    \* invoice builder: None when the --csv path does not open,
                 \*   else the data rows DictReader yields
    pc,          \* invoice builder: position in main
    line_items,  \* invoice builder: the resolved line items
    table_data,  \* invoice builder: the rows handed to the items table
    total,       \* invoice builder: the Decimal total, in 1/10000
    doc,         \* invoice builder: None, or the document doc.build wrote
    stdout,      \* invoice builder: the lines printed
    exc,         \* invoice builder: None, or the exception that ended the run
    op_present,  \* publisher: the op executable is on the PATH
    config_exists, \* publisher: the config file exists
    pargs,       \* publisher: vault, title, account of the command line
    store_items, \* publisher: how many items of that vault/title the store holds
    ppc,         \* publisher: position in main / store_config
    exists_result, \* publisher: what item_exists returned
    invoked,     \* publisher: the op commands run, in order
    results,     \* publisher: the return code and standard error of each
    pout,        \* publisher: the lines printed on stdout
    perr,        \* publisher: the lines printed on stderr
    exit_status  \* publisher: None while running, else the exit status

ivars == <<args, config, csv_file, pc, line_items, table_data, total, doc, stdout, exc>>
pvars == <<op_present, config_exists, pargs, store_items, ppc, exists_result,
           invoked, results, pout, perr, exit_status>>
vars == <<ivars, pvars>>

\* ------------------------------------------------------------------------
\* Invoice builder: line-item resolution
\* ------------------------------------------------------------------------
\* Python truth of an optional float / optional text
TruthyNum(o) == o # None /\ o[1] # 0

TruthyText(o) == o # None /\ o[1] # <<>>

\* float(cell) of a DictReader field: None for a short row, else its text
FloatRaises(cell) == cell = None \/ ~IsDecimalText(cell[1])

FloatError(cell) ==
    IF cell = None THEN [type |-> "TypeError", arg |-> <<"N", "o", "n", "e">>]
    ELSE [type |-> "ValueError", arg |-> cell[1]]

float(cell) == DecimalValue(cell[1])

RowRaises(row) == FloatRaises(row.hours) \/ FloatRaises(row.rate)

RowError(row) ==
    IF FloatRaises(row.hours) THEN FloatError(row.hours) ELSE FloatError(row.rate)

BadRows(rows) == {i \in 1..Len(rows) : RowRaises(rows[i])}

FirstBad(rows) == CHOOSE i \in BadRows(rows) : \A j \in BadRows(rows) : i <= j

\* load_line_items_from_csv that passes over a row it cannot convert
load_line_items_from_csv_skipping(rows) ==
    LET good == SelectSeq(rows, LAMBDA row : ~RowRaises(row))
    IN  [raised |-> FALSE, error |-> [type |-> "", arg |-> <<>>],
         items |-> [i \in 1..Len(good) |->
                       [hours |-> float(good[i].hours),
                        description |-> good[i].description,
                        rate |-> float(good[i].rate)]]]

\* the run of load_line_items_from_csv over the rows of an opened file:
\* the exception of the first row whose conversion fails, else the items
load_line_items_from_csv(rows) ==
    IF BadRows(rows) # {}
    THEN [raised |-> TRUE, error |-> RowError(rows[FirstBad(rows)]), items |-> <<>>]
    ELSE [raised |-> FALSE, error |-> [type |-> "", arg |-> <<>>],
          items |-> [i \in 1..Len(rows) |->
                        [hours |-> float(rows[i].hours),
                         description |-> rows[i].description,
                         rate |-> float(rows[i].rate)]]]

FileNotFound == [type |-> "FileNotFoundError", arg |-> <<>>]

\* main, line 213: the --csv branch is taken
TakesCsv(a) == TruthyText(a.csv)

\* main, line 215: the --hours branch is taken
TakesHours(a) == ~TakesCsv(a) /\ TruthyNum(a.hours)

\* main, lines 216-220: the single item of the --hours branch
single_item(a, cfg) ==
    [hours |-> a.hours[1],
     description |-> IF TruthyText(a.description) THEN a.description[1]
                     ELSE cfg.default_description,
     rate |-> IF TruthyNum(a.rate) THEN a.rate[1] ELSE cfg.default_rate]

\* ------------------------------------------------------------------------
\* Invoice builder: create_invoice
\* ------------------------------------------------------------------------
MinRows == 8

HeaderRow == << <<"H", "o", "u", "r", "s">>,
                <<"D", "e", "s", "c", "r", "i", "p", "t", "i", "o", "n">>,
                <<"R", "a", "t", "e">>,
                <<"A", "m", "o", "u", "n", "t">> >>

BlankRow == << <<>>, <<>>, <<>>, <<>> >>

TotalLabel == <<"T", "o", "t", "a", "l">>

Max(a, b) == IF a >= b THEN a ELSE b

\* line 147
item_amount(item) == Decimal_str(item.hours) * Decimal_str(item.rate)

\* lines 149-154
item_row(item) ==
    <<HoursCell(item.hours), item.description, RateCell(item.rate),
      format_currency(item_amount(item))>>

\* line 148 assigning instead of accumulating: total = amount
sum_amounts_assigning(items) ==
    IF items = <<>> THEN 0 ELSE item_amount(items[Len(items)])

RECURSIVE sum_amounts(_)
\* lines 142-148: total after the loop
sum_amounts(items) ==
    IF items = <<>> THEN 0
    ELSE sum_amounts(SubSeq(items, 1, Len(items) - 1)) + item_amount(items[Len(items)])

\* line 156 counting the item rows only, not the header row
empty_rows_needed_items_only(len) == Max(0, MinRows + 1 - len)

\* line 156, len the length of table_data after the item loop
empty_rows_needed(len) == Max(0, MinRows - len)

\* lines 140-160 with the padding appended before the item loop
build_table_padding_first(items) ==
    LET pad  == [i \in 1..empty_rows_needed(1 + Len(items)) |-> BlankRow]
        rows == [i \in 1..Len(items) |-> item_row(items[i])]
    IN  <<HeaderRow>> \o pad \o rows
           \o << << <<>>, <<>>, TotalLabel, format_currency(sum_amounts(items)) >> >>

\* lines 140-160
build_table(items) ==
    LET rows == <<HeaderRow>> \o [i \in 1..Len(items) |-> item_row(items[i])]
        pad  == [i \in 1..empty_rows_needed(Len(rows)) |-> BlankRow]
    IN  rows \o pad \o << << <<>>, <<>>, TotalLabel, format_currency(sum_amounts(items)) >> >>

\* args.date.replace("-", "")
RECURSIVE strip_dashes(_)
strip_dashes(t) ==
    IF t = <<>> THEN <<>>
    ELSE (IF t[1] = "-" THEN <<>> ELSE <<t[1]>>) \o strip_dashes(Tail(t))

\* main, lines 225-229
output_path(a, cfg) ==
    IF TruthyText(a.output) THEN a.output[1]
    ELSE cfg.filename_prefix \o <<"_">> \o strip_dashes(a.date) \o <<".", "p", "d", "f">>

UsageMessage == [msg |-> "Error: Must provide either --hours or --csv", arg |-> <<>>]

CreatedMessage(path) == [msg |-> "Invoice created: ", arg |-> path]

\* ------------------------------------------------------------------------
\* Invoice builder: inputs
\* ------------------------------------------------------------------------
TheConfig ==
    [default_rate |-> 10000,
     default_description |-> <<"W", "o", "r", "k">>,
     filename_prefix |-> <<"I", "n", "v">>]

TheDate == <<"2", "0", "2", "5", "-", "1", "2", "-", "0", "2">>

CsvPath == <<"i", ".", "c", "s", "v">>

OutPath == <<"o", ".", "p", "d", "f">>

\* --hours: omitted, 0, 0.1, 1.25, 10
HoursArgs == {None, Some(0), Some(10), Some(125), Some(1000)}

\* --rate: omitted, 0, 0.5, 150
RateArgs == {None, Some(0), Some(50), Some(15000)}

\* --description: omitted, empty, "QA"
DescriptionArgs == {None, Some(<<>>), Some(<<"Q", "A">>)}

\* hours fields of a CSV row: "", "x", "0.1", "1.25"
HoursFields == {Some(<<>>), Some(<<"x">>), Some(<<"0", ".", "1">>), Some(<<"1", ".", "2", "5">>)}

\* rate fields of a CSV row: none (a short row), "3", "0.5"
RateFields == {None, Some(<<"3">>), Some(<<"0", ".", "5">>)}

CsvRows == [hours : HoursFields, description : {<<"D", "e", "v">>}, rate : RateFields]

\* the rows of the long files: distinct descriptions, well-formed numbers
LayoutRows ==
    {[hours |-> Some(<<"8">>), description |-> <<"A">>, rate |-> Some(<<"1", "2", "5", "0">>)],
     [hours |-> Some(<<"0", ".", "3", "5">>), description |-> <<"B">>, rate |-> Some(<<"0", ".", "5">>)]}

SeqsUpTo(S, n) == UNION {[1..k -> S] : k \in 0..n}

Args(h, r, d, c, o) ==
    [hours |-> h, rate |-> r, description |-> d, csv |-> c, output |-> o, date |-> TheDate]

PublisherIdle ==
    /\ op_present = FALSE
    /\ config_exists = FALSE
    /\ pargs = [vault |-> "", title |-> "", account |-> None]
    /\ store_items = 0
    /\ ppc = "idle"
    /\ exists_result = None
    /\ invoked = <<>>
    /\ results = <<>>
    /\ pout = <<>>
    /\ perr = <<>>
    /\ exit_status = None

\* the state main is in at line 213, the command line parsed and the
\* configuration loaded
InitInvoice ==
    /\ config = TheConfig
    /\ pc = "main"
    /\ line_items = <<>>
    /\ table_data = <<>>
    /\ total = 0
    /\ doc = None
    /\ stdout = <<>>
    /\ exc = None
    /\ \/ \* no --csv: the command line decides
          /\ args \in {Args(h, r, d, None, o) : h \in HoursArgs, r \in RateArgs,
                          d \in DescriptionArgs, o \in {None, Some(OutPath)}}
          /\ csv_file = None
       \/ \* --csv names a file that does not open
          /\ args = Args(None, None, None, Some(CsvPath), None)
          /\ csv_file = None
       \/ \* --csv names a file of up to MaxRows rows, with or without --hours
          /\ args \in {Args(h, None, None, Some(CsvPath), None) : h \in {None, Some(1000)}}
          /\ csv_file \in {Some(rows) : rows \in SeqsUpTo(CsvRows, MaxRows)}
       \/ \* --csv names a long well-formed file
          /\ args = Args(None, None, None, Some(CsvPath), None)
          /\ csv_file \in {Some(rows) : rows \in SeqsUpTo(LayoutRows, MaxLayoutItems)}

Init == InitInvoice /\ PublisherIdle

\* ------------------------------------------------------------------------
\* Invoice builder: main
\* ------------------------------------------------------------------------
\* lines 213-214, open() fails: the exception leaves main
LoadCsvMissing ==
    /\ pc = "main"
    /\ TakesCsv(args)
    /\ csv_file = None
    /\ exc' = Some(FileNotFound)
    /\ pc' = "done"
    /\ UNCHANGED <<args, config, csv_file, line_items, table_data, total, doc, stdout>>
    /\ UNCHANGED pvars

\* lines 213-214, a conversion fails: the exception leaves main
LoadCsvRaise ==
    /\ pc = "main"
    /\ TakesCsv(args)
    /\ csv_file # None
    /\ load_line_items_from_csv(csv_file[1]).raised
    /\ exc' = Some(load_line_items_from_csv(csv_file[1]).error)
    /\ pc' = "done"
    /\ UNCHANGED <<args, config, csv_file, line_items, table_data, total, doc, stdout>>
    /\ UNCHANGED pvars

\* lines 213-214, the file is read
LoadCsv ==
    /\ pc = "main"
    /\ TakesCsv(args)
    /\ csv_file # None
    /\ ~load_line_items_from_csv(csv_file[1]).raised
    /\ line_items' = load_line_items_from_csv(csv_file[1]).items
    /\ pc' = "resolved"
    /\ UNCHANGED <<args, config, csv_file, table_data, total, doc, stdout, exc>>
    /\ UNCHANGED pvars

\* lines 215-220
SingleItem ==
    /\ pc = "main"
    /\ TakesHours(args)
    /\ line_items' = <<single_item(args, config)>>
    /\ pc' = "resolved"
    /\ UNCHANGED <<args, config, csv_file, table_data, total, doc, stdout, exc>>
    /\ UNCHANGED pvars

\* lines 221-223
UsageError ==
    /\ pc = "main"
    /\ ~TakesCsv(args)
    /\ ~TakesHours(args)
    /\ stdout' = Append(stdout, UsageMessage)
    /\ pc' = "done"
    /\ UNCHANGED <<args, config, csv_file, line_items, table_data, total, doc, exc>>
    /\ UNCHANGED pvars

\* lines 225-231: the output path and create_invoice
CreateInvoice ==
    /\ pc = "resolved"
    /\ table_data' = build_table(line_items)
    /\ total' = sum_amounts(line_items)
    /\ doc' = Some([path |-> output_path(args, config), table |-> build_table(line_items)])
    /\ stdout' = Append(stdout, CreatedMessage(output_path(args, config)))
    /\ pc' = "done"
    /\ UNCHANGED <<args, config, csv_file, line_items, exc>>
    /\ UNCHANGED pvars

Next ==
    \/ LoadCsvMissing
    \/ LoadCsvRaise
    \/ LoadCsv
    \/ SingleItem
    \/ UsageError
    \/ CreateInvoice

Spec == Init /\ [][Next]_vars

\* ------------------------------------------------------------------------
\* Secret publisher
\* ------------------------------------------------------------------------
IsSpace(c) == c = " " \/ c = "\n"

RECURSIVE lstrip(_)
lstrip(t) == IF t # <<>> /\ IsSpace(t[1]) THEN lstrip(Tail(t)) ELSE t

RECURSIVE rstrip(_)
rstrip(t) ==
    IF t # <<>> /\ IsSpace(t[Len(t)]) THEN rstrip(SubSeq(t, 1, Len(t) - 1)) ELSE t

\* e.stderr.strip()
strip(t) == rstrip(lstrip(t))

\* lines 17-19 and line 30: the --account arguments
account_args(account) ==
    IF account # None /\ account[1] # "" THEN <<"--account", account[1]>> ELSE <<>>

ConfigContent == "[invoice]"

\* lines 17-19
get_cmd(a) == <<"op", "item", "get", a.title, "--vault", a.vault>> \o account_args(a.account)

\* lines 34-39
edit_cmd(a) ==
    <<"op", "item", "edit", a.title, "--vault", a.vault, "config[text]=", ConfigContent>>
        \o account_args(a.account)

\* lines 43-50
create_cmd(a) ==
    <<"op", "item", "create", "--category", "Secure Note", "--vault", a.vault,
      "--title", a.title, "config[text]=", ConfigContent>> \o account_args(a.account)

\* line 21 with the comparison inverted
item_exists_inverted(returncode) == returncode # 0

\* line 21
item_exists(returncode) == returncode = 0

\* line 53: op://{vault}/{title}/config
Reference(a) == <<"op://", a.vault, "/", a.title, "/config">>

Completed(returncode, stderr) == [returncode |-> returncode, stderr |-> stderr]

MissingConfigMessage == [msg |-> "Error: Config file not found: ", ref |-> None, text |-> <<>>]

NotFoundMessage == [msg |-> "1Password CLI (op) not found. Install it from https://1password.com/downloads/command-line/", ref |-> None, text |-> <<>>]

FailedMessage(stderr) == [msg |-> "Failed to store in 1Password: ", ref |-> None, text |-> strip(stderr)]

UpdatedMessage(a) == [msg |-> "Config updated in 1Password: ", ref |-> Some(Reference(a)), text |-> <<>>]

StoredMessage(a) == [msg |-> "Config stored in 1Password: ", ref |-> Some(Reference(a)), text |-> <<>>]

UseWithMessage(a) == [msg |-> "Use with: uv run create_invoice.py --hours 100 --op-item ", ref |-> Some(Reference(a)), text |-> <<>>]

\* what a failing op writes on its standard error
ToolErrors == {<<>>, <<"[", "E", "]", " ", "n", "o", "\n">>, <<" ", "x">>}

Vaults == {"Private", "Work"}

Titles == {"invoice-config", "t"}

Accounts == {None, Some(""), Some("my.1password.com")}

InvoiceIdle ==
    /\ args = Args(None, None, None, None, None)
    /\ config = TheConfig
    /\ csv_file = None
    /\ pc = "idle"
    /\ line_items = <<>>
    /\ table_data = <<>>
    /\ total = 0
    /\ doc = None
    /\ stdout = <<>>
    /\ exc = None

\* the state main is in at line 74, the command line parsed
InitPublisher ==
    /\ InvoiceIdle
    /\ op_present \in BOOLEAN
    /\ config_exists \in BOOLEAN
    /\ pargs \in [vault : Vaults, title : Titles, account : Accounts]
    /\ store_items \in {0, 1}
    /\ ppc = "start"
    /\ exists_result = None
    /\ invoked = <<>>
    /\ results = <<>>
    /\ pout = <<>>
    /\ perr = <<>>
    /\ exit_status = None

\* lines 25-27
ConfigMissing ==
    /\ ppc = "start"
    /\ ~config_exists
    /\ perr' = Append(perr, MissingConfigMessage)
    /\ exit_status' = Some(1)
    /\ ppc' = "exited"
    /\ UNCHANGED <<op_present, config_exists, pargs, store_items, exists_result, invoked, results, pout>>
    /\ UNCHANGED ivars

\* lines 29-30
ReadConfig ==
    /\ ppc = "start"
    /\ config_exists
    /\ ppc' = "lookup"
    /\ UNCHANGED <<op_present, config_exists, pargs, store_items, exists_result, invoked,
                   results, pout, perr, exit_status>>
    /\ UNCHANGED ivars

\* line 33 and lines 57-59: subprocess.run finds no op executable
LookupNoTool ==
    /\ ppc = "lookup"
    /\ ~op_present
    /\ perr' = Append(perr, NotFoundMessage)
    /\ exit_status' = Some(1)
    /\ ppc' = "exited"
    /\ UNCHANGED <<op_present, config_exists, pargs, store_items, exists_result, invoked, results, pout>>
    /\ UNCHANGED ivars

\* line 33, item_exists: op item get runs; it returns 0 only for an item
\* the store holds, and may fail for an item it holds
Lookup ==
    /\ ppc = "lookup"
    /\ op_present
    /\ \E returncode \in {0, 1} :
          /\ returncode = 0 => store_items = 1
          /\ exists_result' = Some(item_exists(returncode))
          /\ results' = Append(results, Completed(returncode, <<>>))
    /\ invoked' = Append(invoked, get_cmd(pargs))
    /\ ppc' = "mutate"
    /\ UNCHANGED <<op_present, config_exists, pargs, store_items, pout, perr, exit_status>>
    /\ UNCHANGED ivars

\* lines 34-41 and 53
EditOk ==
    /\ ppc = "mutate"
    /\ exists_result[1]
    /\ invoked' = Append(invoked, edit_cmd(pargs))
    /\ results' = Append(results, Completed(0, <<>>))
    /\ pout' = Append(pout, UpdatedMessage(pargs))
    /\ ppc' = "returned"
    /\ UNCHANGED <<op_present, config_exists, pargs, store_items, exists_result, perr, exit_status>>
    /\ UNCHANGED ivars

\* lines 34-40 and 54-56: op item edit returns non-zero
EditFail ==
    /\ ppc = "mutate"
    /\ exists_result[1]
    /\ invoked' = Append(invoked, edit_cmd(pargs))
    /\ \E stderr \in ToolErrors :
          /\ results' = Append(results, Completed(1, stderr))
          /\ perr' = Append(perr, FailedMessage(stderr))
    /\ exit_status' = Some(1)
    /\ ppc' = "exited"
    /\ UNCHANGED <<op_present, config_exists, pargs, store_items, exists_result, pout>>
    /\ UNCHANGED ivars

\* lines 43-53
CreateOk ==
    /\ ppc = "mutate"
    /\ ~exists_result[1]
    /\ invoked' = Append(invoked, create_cmd(pargs))
    /\ results' = Append(results, Completed(0, <<>>))
    /\ store_items' = store_items + 1
    /\ pout' = Append(pout, StoredMessage(pargs))
    /\ ppc' = "returned"
    /\ UNCHANGED <<op_present, config_exists, pargs, exists_result, perr, exit_status>>
    /\ UNCHANGED ivars

\* lines 43-52 without check=True: the failure of op item create is not seen
CreateFailUnchecked ==
    /\ ppc = "mutate"
    /\ ~exists_result[1]
    /\ invoked' = Append(invoked, create_cmd(pargs))
    /\ \E stderr \in ToolErrors : results' = Append(results, Completed(1, stderr))
    /\ pout' = Append(pout, StoredMessage(pargs))
    /\ ppc' = "returned"
    /\ UNCHANGED <<op_present, config_exists, pargs, store_items, exists_result, perr, exit_status>>
    /\ UNCHANGED ivars

\* lines 43-51 and 54-56: op item create returns non-zero
CreateFail ==
    /\ ppc = "mutate"
    /\ ~exists_result[1]
    /\ invoked' = Append(invoked, create_cmd(pargs))
    /\ \E stderr \in ToolErrors :
          /\ results' = Append(results, Completed(1, stderr))
          /\ perr' = Append(perr, FailedMessage(stderr))
    /\ exit_status' = Some(1)
    /\ ppc' = "exited"
    /\ UNCHANGED <<op_present, config_exists, pargs, store_items, exists_result, pout>>
    /\ UNCHANGED ivars

\* main, lines 75-78
PrintUsage ==
    /\ ppc = "returned"
    /\ pout' = Append(pout, UseWithMessage(pargs))
    /\ exit_status' = Some(0)
    /\ ppc' = "exited"
    /\ UNCHANGED <<op_present, config_exists, pargs, store_items, exists_result, invoked, results, perr>>
    /\ UNCHANGED ivars

PNext ==
    \/ ConfigMissing
    \/ ReadConfig
    \/ LookupNoTool
    \/ Lookup
    \/ EditOk
    \/ EditFail
    \/ CreateOk
    \/ CreateFail
    \/ PrintUsage

SpecPublisher == InitPublisher /\ [][PNext]_vars

\* ------------------------------------------------------------------------
\* Properties of the secret publisher (SpecPublisher)
\* ------------------------------------------------------------------------
\* the op subcommand of a command line: get, edit or create
Subcommand(cmd) == cmd[3]

PublisherEnded == ppc \in {"returned", "exited"}

\* C1: a run that reaches the external tool invokes the lookup first and
\* then exactly one mutating command: edit when the lookup returned 0 (the
\* entry exists), create when it did not; never both, never one before the
\* lookup, and each for the vault, title and account of the command line.
C1_LookupThenOneMutation ==
    /\ Len(invoked) <= 2
    /\ Len(results) = Len(invoked)
    /\ invoked # <<>> =>
          /\ Subcommand(invoked[1]) = "get"
          /\ invoked[1][4] = pargs.title
          /\ invoked[1][6] = pargs.vault
    /\ Len(invoked) = 2 =>
          /\ Subcommand(invoked[2]) =
                (IF results[1].returncode = 0 THEN "edit" ELSE "create")
          /\ \E i \in 1..Len(invoked[2]) : invoked[2][i] = pargs.title
          /\ \E i \in 1..Len(invoked[2]) : invoked[2][i] = pargs.vault
    /\ (PublisherEnded /\ invoked # <<>>) => Len(invoked) = 2
    /\ \A i \in 1..Len(invoked) :
          (pargs.account # None /\ pargs.account[1] # "")
             <=> (\E k \in 1..Len(invoked[i]) - 1 :
                     invoked[i][k] = "--account" /\ invoked[i][k + 1] = pargs.account[1])

\* a finished run whose lookup found no entry and whose create succeeded
C1_Witness ==
    /\ exit_status = Some(0)
    /\ Len(invoked) = 2
    /\ results[1].returncode # 0
    /\ Subcommand(invoked[2]) = "create"

\* t is s without its leading and trailing white space
IsStripOf(t, s) ==
    /\ t # <<>> => ~IsSpace(t[1]) /\ ~IsSpace(t[Len(t)])
    /\ \E i \in 1..Len(s) + 1 :
          /\ SubSeq(s, i, i + Len(t) - 1) = t
          /\ \A k \in 1..Len(s) : (k < i \/ k > i + Len(t) - 1) => IsSpace(s[k])

MutationFailed == Len(results) = 2 /\ results[2].returncode # 0

ToolAbsentHit == ~op_present /\ config_exists /\ ppc \notin {"start", "lookup"}

\* C8: when the create or update command returns non-zero, or the tool is
\* absent, the run has ended with exit status 1, one line on standard error
\* (after a failed command, the tool's own error text), no success message
\* and no reference on standard output, and no command after the failing
\* one; a reference is printed only after a create or update that returned 0.
C8_FailureIsFatal ==
    /\ (MutationFailed \/ ToolAbsentHit) =>
          /\ ppc = "exited"
          /\ exit_status = Some(1)
          /\ Len(perr) = 1
          /\ pout = <<>>
          /\ Len(invoked) = Len(results)
    /\ MutationFailed =>
          /\ IsStripOf(perr[1].text, results[2].stderr)
          /\ perr[1].msg = "Failed to store in 1Password: "
    /\ ToolAbsentHit => invoked = <<>>
    /\ \A i \in 1..Len(perr) : perr[i].ref = None
    /\ \A i \in 1..Len(pout) :
          pout[i].ref # None =>
             /\ Len(results) = 2
             /\ results[2].returncode = 0
             /\ pout[i].ref[1] = <<"op://", pargs.vault, "/", pargs.title, "/config">>

\* a run ended by a create that returned non-zero with error text
C8_Witness ==
    /\ MutationFailed
    /\ Subcommand(invoked[2]) = "create"
    /\ perr[1].text # <<>>
    /\ exit_status = Some(1)

\* C10: the create command is never invoked while the store holds an entry
\* of that vault and title, whatever the lookup returned.
C10_NoCreateOverExisting ==
    [][(Len(invoked') = Len(invoked) + 1
          /\ Subcommand(invoked'[Len(invoked')]) = "create") => store_items = 0]_vars

\* ------------------------------------------------------------------------
\* Properties of the invoice builder (Spec)
\* ------------------------------------------------------------------------
RECURSIVE Without(_, _)
\* the text t without the characters of the set cs
Without(t, cs) ==
    IF t = <<>> THEN <<>>
    ELSE (IF t[1] \in cs THEN <<>> ELSE <<t[1]>>) \o Without(Tail(t), cs)

\* the number of cents a currency cell shows
ShownCents(cell) == DecimalValue(Without(cell, {"$", ","}))

IsCurrencyCell(cell) ==
    /\ Len(cell) >= 5
    /\ cell[1] = "$"
    /\ cell[Len(cell) - 2] = "."
    /\ IsDecimalText(Without(cell, {"$", ","}))

\* hours x rate of an item, exactly, in 1/10000
ExactProduct(item) == item.hours * item.rate

RECURSIVE ExactSum(_)
ExactSum(items) ==
    IF items = <<>> THEN 0 ELSE ExactProduct(items[1]) + ExactSum(Tail(items))

\* cents is a nearest whole number of cents to the amount x (in 1/10000)
NearestCent(cents, x) == 100 * cents - x <= 50 /\ x - 100 * cents <= 50

Written == doc # None

TheTable == doc[1].table

TotalRowOf(t) == t[Len(t)]

BlankRowsOf(t) == {i \in 1..Len(t) : t[i] = BlankRow}

C3_BothIsUsageError ==
    (pc = "done" /\ args.hours # None /\ args.csv # None) =>
       /\ ~Written
       /\ (\E i \in 1..Len(stdout) : stdout[i] = UsageMessage) \/ exc # None

\* C4: with neither --csv nor --hours supplied the run prints the usage
\* error and ends with no document, no call of create_invoice and no
\* exception; and the usage error is printed in that case only, never to a
\* run that was given --hours.
C4_UsageErrorIffNeither ==
    pc = "done" =>
       /\ (args.hours = None /\ args.csv = None) =>
             /\ stdout = <<UsageMessage>>
             /\ ~Written
             /\ table_data = <<>>
             /\ exc = None
       /\ (\E i \in 1..Len(stdout) : stdout[i] = UsageMessage)
             => (args.hours = None /\ args.csv = None)

\* C5, as claimed: at least 8 item-or-blank rows between the header row and
\* the total row; blank rows exactly when fewer than 8 items, none from 8.
C5_EightBodyRows ==
    Written =>
       /\ Len(TheTable) - 2 >= 8
       /\ (BlankRowsOf(TheTable) # {}) <=> (Len(line_items) < 8)
       /\ Len(line_items) >= 8 => Len(TheTable) = Len(line_items) + 2
       /\ Len(line_items) = 0 => TotalRowOf(TheTable)[4] = <<"$", "0", ".", "0", "0">>

\* C5, amended: at least 8 rows above the total row counting the header
\* row, so at least 7 item-or-blank rows; 7 - n blank rows exactly when
\* fewer than 7 items are supplied, none from 7 on (the table grows to fit);
\* with no items 7 blank rows and a total row reading $0.00.
C5_EightRowsWithHeader ==
    Written =>
       /\ Len(TheTable) - 1 >= 8
       /\ Len(TheTable) - 2 = Max(Len(line_items), 7)
       /\ Cardinality(BlankRowsOf(TheTable)) = Max(0, 7 - Len(line_items))
       /\ Len(line_items) = 0 => TotalRowOf(TheTable)[4] = <<"$", "0", ".", "0", "0">>

\* seven items: no blank row although fewer than eight items are supplied
C5_Witness ==
    /\ Written
    /\ Len(line_items) = 7
    /\ BlankRowsOf(TheTable) = {}
    /\ Len(TheTable) = 9

\* C6: with --hours given and no --csv the sequence main resolves is one item of
\* the given hours, of the given --rate whenever one is given and of the
\* given --description whenever one is given, the configured defaults
\* standing in only for what is omitted.
C6_SingleItemAsGiven ==
    (pc = "resolved" /\ args.hours # None /\ args.csv = None) =>
       line_items =
          << [hours |-> args.hours[1],
              description |-> IF args.description # None THEN args.description[1]
                              ELSE config.default_description,
              rate |-> IF args.rate # None THEN args.rate[1] ELSE config.default_rate] >>

CsvRunEnded == pc = "done" /\ TakesCsv(args) /\ csv_file # None

FailingField(row) ==
    IF row.hours = None \/ ~IsDecimalText(row.hours[1]) THEN row.hours ELSE row.rate

C9_RowsInOrder ==
    /\ Written =>
          LET t == TheTable
              n == Len(line_items)
          IN  /\ Len(t) >= n + 2
              /\ t[1] = HeaderRow
              /\ \A i \in 1..n :
                    /\ t[i + 1][2] = line_items[i].description
                    /\ ShownCents(t[i + 1][3]) = line_items[i].rate
                    /\ NearestCent(ShownCents(t[i + 1][4]), ExactProduct(line_items[i]))
                    /\ t[i + 1] # BlankRow
              /\ \A i \in (n + 2)..(Len(t) - 1) : t[i] = BlankRow
              /\ {i \in 1..Len(t) : t[i][3] = TotalLabel} = {Len(t)}
    /\ (TakesCsv(args) /\ csv_file # None /\ pc \in {"resolved", "done"} /\ exc = None) =>
          /\ Len(line_items) = Len(csv_file[1])
          /\ \A i \in 1..Len(line_items) :
                /\ line_items[i].description = csv_file[1][i].description
                /\ str_float(line_items[i].hours) = str_float(DecimalValue(csv_file[1][i].hours[1]))

\* a written table of items of different descriptions followed by blank rows
C9_Witness ==
    /\ Written
    /\ Len(line_items) = 3
    /\ line_items[1].description # line_items[2].description
    /\ line_items[2].description = line_items[3].description
    /\ BlankRowsOf(TheTable) # {}

====
